---- MODULE Spec2Model ----
(***************************************************************************)
(* Model of the blocking Esplora backend of bdk                           *)
(* (src/blockchain/esplora/blocking.rs): the wallet synchronisation       *)
(* driver WalletSync::wallet_setup, the two retrying fetchers             *)
(* retry_script_with_429 / retry_tx_with_429 and GetTx::get_tx.           *)
(*                                                                         *)
(* One behaviour of the model is one invocation of one operation          *)
(* (wallet_setup or get_tx).  The remote Esplora service, the sync-plan   *)
(* collaborator (script_sync) and the database are the environment: the   *)
(* service answers every try with success, an HTTP status error or a      *)
(* transport error; the collaborator yields any stage request; the        *)
(* database commit succeeds or fails.                                      *)
(***************************************************************************)
EXTENDS Integers, Sequences, FiniteSets, TLC

\* ------------------------------------------------------------ constants

\* "if n_confirmed >= 25" / "if n < 25": the page size the driver assumes.
PageSize == 25
\* "esplora pages on 25 confirmed transactions": the page size of the service.
EsploraPageSize == 25
\* "if attempts > 6": the retry cap of both fetchers.
RetryCap == 6
\* "if status == 429": the rate-limit signal.
RateLimitStatus == 429

\* --------------------------------------------------------------- bounds

\* Non-Finish stage requests the sync-plan collaborator issues in one sync.
MaxStages == 3
\* Work items (scripts or transaction ids) in one stage request.
MaxReq == 2
\* Non-429 HTTP error responses of one logical remote call that are counted.
MaxSpins == 1

\* The wallet's scripts.
Scripts == {1, 2}
\* Confirmed / unconfirmed transactions the service may hold for script s.
ConfCounts(s) == IF s = 1 THEN {0, 24, 25, 30, 50} ELSE {0, 25}
MemCounts(s) == IF s = 1 THEN {0, 1} ELSE {0}
\* HTTP error statuses the service may answer with.
ErrStatuses == {RateLimitStatus, 404, 500}
\* A transaction id no script history holds.
UnknownTxid == 999

\* -------------------------------------------------------------- helpers

Some(x) == <<x>>
None == <<>>

Min(a, b) == IF a < b THEN a ELSE b

Last(s) == s[Len(s)]

RECURSIVE Flatten(_)
Flatten(ss) == IF ss = <<>> THEN <<>> ELSE Head(ss) \o Flatten(Tail(ss))

\* Sequences over S of length at most n.
SeqsUpTo(S, n) == UNION {[1..k -> S] : k \in 0..n}

VARIABLES
  nconf,          \* service: number of confirmed transactions of each script
  nmem,           \* service: number of unconfirmed transactions of each script
  pc,             \* position of the invoked operation
  op,             \* the invoked operation: "none", "wallet_setup", "get_tx"
  request,        \* wallet_setup: the current stage request
  tx_index,       \* wallet_setup: HashMap<Txid, Tx>
  txs_per_script, \* wallet_setup: Vec<Vec<Tx>> of the Script arm
  related_txs,    \* wallet_setup: history of the script being collected
  si,             \* wallet_setup: position of the script loop in the request
  call,           \* the fetcher's activation: arguments, attempts, and its log
  ret,            \* the value the fetcher returned (Ok)
  pages,          \* log: the page fetches made for the script being collected
  fetchlog,       \* log: per script pushed to txs_per_script, its page fetches
  payload,        \* the satisfaction handed to the satisfy call in progress
  delivered,      \* collaborator: the (txid, height) pairs it was given
  batch,          \* collaborator: the update it is building
  nreq,           \* log: stage requests received from the collaborator
  nsat,           \* log: satisfy calls made
  fetchErrs,      \* log: fetcher calls that returned Err
  commits,        \* log: commit_batch calls made
  finishSeen,     \* log: the collaborator has yielded Finish
  result          \* outcome of the operation

vars == <<nconf, nmem, pc, op, request, tx_index, txs_per_script, related_txs,
          si, call, ret, pages, fetchlog, payload, delivered, batch,
          nreq, nsat,
          fetchErrs, commits, finishSeen, result>>

\* ------------------------------------------- the remote Esplora service

\* esplora_client::Tx, as far as the driver reads it.
Tx(id, conf, h) == [txid |-> id, confirmed |-> conf, block_height |-> h]

\* The id of the transaction of script s that is the age-th oldest of its
\* confirmed history.  The oldest one pays to every script of the wallet.
TxidOf(s, age) == IF age = 1 THEN 1 ELSE s * 100 + age

\* The block height the service reports for it.  The shared transaction is
\* reported at a different height to each script (a reorganisation between
\* the two fetches), so that the two records of it differ.
HeightOf(s, age) == IF age = 1 THEN s ELSE age + 10

MempoolTxid(s, k) == s * 100 + 90 + k

\* Confirmed history of script s, newest first.
ConfirmedHistory(s) ==
  [j \in 1..nconf[s] |->
     Tx(TxidOf(s, nconf[s] - j + 1), TRUE, Some(HeightOf(s, nconf[s] - j + 1)))]

MempoolHistory(s) == [k \in 1..nmem[s] |-> Tx(MempoolTxid(s, k), FALSE, None)]

PosOf(txs, id) ==
  IF \E i \in 1..Len(txs) : txs[i].txid = id
  THEN CHOOSE i \in 1..Len(txs) : txs[i].txid = id
  ELSE 0

\* GET /scripthash/:hash/txs (no cursor): the unconfirmed transactions, then
\* the newest page of confirmed ones.  GET /scripthash/:hash/txs/chain/:txid:
\* the page of confirmed ones that follow the cursor.
ScripthashTxs(s, page) ==
  LET conf == ConfirmedHistory(s) IN
  IF page = None
  THEN MempoolHistory(s) \o SubSeq(conf, 1, Min(Len(conf), EsploraPageSize))
  ELSE LET p == PosOf(conf, page[1]) IN
       IF p = 0 THEN <<>>
       ELSE SubSeq(conf, p + 1, Min(Len(conf), p + EsploraPageSize))

\* GET /tx/:txid: the transaction, if the service knows it.
KnownTxids ==
  UNION {{ConfirmedHistory(s)[j].txid : j \in 1..nconf[s]}
           \cup {MempoolHistory(s)[k].txid : k \in 1..nmem[s]} : s \in Scripts}

ServiceGetTx(txid) == IF txid \in KnownTxids THEN Some([txid |-> txid]) ELSE None

\* esplora_client::Error, as far as the fetchers look at it.
HttpResponse(status) == [http |-> TRUE, status |-> status]
Transport == [http |-> FALSE, status |-> 0]
Errors == {HttpResponse(st) : st \in ErrStatuses} \cup {Transport}

\* ------------------------------------------------------ the two fetchers

\* An activation of a fetcher: its arguments, its local "attempts", how it
\* ended (state, err), and a log of what it did: the waits it slept, in
\* order, and the number of non-429 HTTP error responses it went on after.
\* While it runs, phase tells successive passes of its loop that neither
\* wait nor return apart.
NoCall ==
  [kind |-> "none", arg |-> 0, page |-> None, attempts |-> 0, state |-> "none",
   err |-> None, waits |-> <<>>, spins |-> 0,
   phase |-> 0]

\* ScriptCall with an attempt counter that lives on from the call before.
ScriptCallKeepingAttempts(script, page) ==
  [kind |-> "script", arg |-> script, page |-> page,
   attempts |-> call.attempts, state |-> "running", err |-> None,
   waits |-> <<>>, spins |-> 0, phase |-> 0]

\* Entry of retry_script_with_429(client, script, page): "let mut attempts = 0".
ScriptCall(script, page) ==
  [kind |-> "script", arg |-> script, page |-> page, attempts |-> 0,
   state |-> "running", err |-> None, waits |-> <<>>, spins |-> 0,
   phase |-> 0]

\* Entry of retry_tx_with_429(client, txid): "let mut attempts = 0".
TxCall(txid) ==
  [kind |-> "tx", arg |-> txid, page |-> None, attempts |-> 0,
   state |-> "running", err |-> None, waits |-> <<>>, spins |-> 0,
   phase |-> 0]

\* ScriptOnErr giving up one rate-limit response earlier: "attempts >= 6".
ScriptOnErrCapEarly(c, e) ==
  IF c.attempts >= RetryCap
  THEN [c EXCEPT !.state = "err", !.err = Some(e), !.phase = 0]
  ELSE IF e.http
       THEN IF e.status = RateLimitStatus
            THEN [c EXCEPT !.attempts = @ + 1,
                           !.waits = Append(@, 2 ^ c.attempts)]
            ELSE [c EXCEPT !.spins = Min(@ + 1, MaxSpins), !.phase = 1 - @]
       ELSE [c EXCEPT !.state = "err", !.err = Some(e), !.phase = 0]

\* ScriptOnErr counting the attempt before it computes the wait.
ScriptOnErrCountFirst(c, e) ==
  IF c.attempts > RetryCap
  THEN [c EXCEPT !.state = "err", !.err = Some(e), !.phase = 0]
  ELSE IF e.http
       THEN IF e.status = RateLimitStatus
            THEN [c EXCEPT !.attempts = @ + 1,
                           !.waits = Append(@, 2 ^ (c.attempts + 1))]
            ELSE [c EXCEPT !.spins = Min(@ + 1, MaxSpins), !.phase = 1 - @]
       ELSE [c EXCEPT !.state = "err", !.err = Some(e), !.phase = 0]

\* The Err(e) arm of retry_script_with_429's loop.
ScriptOnErr(c, e) ==
  IF c.attempts > RetryCap
  THEN [c EXCEPT !.state = "err", !.err = Some(e), !.phase = 0]
  ELSE IF e.http
       THEN IF e.status = RateLimitStatus
            THEN [c EXCEPT !.attempts = @ + 1,
                           !.waits = Append(@, 2 ^ c.attempts)]
            ELSE [c EXCEPT !.spins = Min(@ + 1, MaxSpins), !.phase = 1 - @]
       ELSE [c EXCEPT !.state = "err", !.err = Some(e), !.phase = 0]

\* The Err(e) arm of retry_tx_with_429's loop.
TxOnErr(c, e) ==
  IF c.attempts > RetryCap
  THEN [c EXCEPT !.state = "err", !.err = Some(e), !.phase = 0]
  ELSE IF e.http
       THEN IF e.status = RateLimitStatus
            THEN [c EXCEPT !.attempts = @ + 1,
                           !.waits = Append(@, 2 ^ c.attempts)]
            ELSE [c EXCEPT !.spins = Min(@ + 1, MaxSpins), !.phase = 1 - @]
       ELSE [c EXCEPT !.state = "err", !.err = Some(e), !.phase = 0]

\* The Ok(val) arm of both loops: "return Ok(val)".
OnOk(c) == [c EXCEPT !.state = "ok", !.phase = 0]

\* Tries a returned activation made: one per wait, one per error response it
\* went on after without a wait, and the one that made it return.
Tries(c) == Len(c.waits) + c.spins + 1

\* ------------------------------------------ the sync-plan collaborator

\* Transaction ids the collaborator may ask about in the later stages: the
\* shared transaction, an unconfirmed one, and one no script history holds.
ReqIds == {TxidOf(1, 1), MempoolTxid(1, 1), UnknownTxid}

Request(kind, items) == [kind |-> kind, items |-> items]
NoRequest == Request("none", <<>>)
Finish == Request("Finish", <<>>)

\* The collaborator asks for each script of a request once.
ScriptSeqs ==
  {q \in SeqsUpTo(Scripts, MaxReq) :
     \A i, j \in 1..Len(q) : q[i] = q[j] => i = j}

\* script_sync::Request: the stage requests the collaborator can yield.
StageRequests ==
  {Request("Script", q) : q \in ScriptSeqs}
    \cup {Request(k, q) : k \in {"Conftime", "Tx"}, q \in SeqsUpTo(ReqIds, MaxReq)}

\* What the collaborator keeps of the Script-discovery satisfactions pl it is
\* given: for every transaction id, in the order it first saw them, the
\* block height it was told last.
DeliveredAfter(d, pl) ==
  LET pairs == Flatten(pl)
      n == Len(pairs)
      old == {d[i][1] : i \in 1..Len(d)}
      LastOf(id) ==
        LET at == {k \in 1..n : pairs[k][1] = id}
        IN  pairs[CHOOSE i \in at : \A j \in at : j <= i]
      IsNew(i) ==
        pairs[i][1] \notin old /\ \A j \in 1..(i - 1) : pairs[j][1] # pairs[i][1]
      newAt == SelectSeq([i \in 1..n |-> i], IsNew)
  IN  [i \in 1..Len(d) |->
         IF \E k \in 1..n : pairs[k][1] = d[i][1] THEN LastOf(d[i][1]) ELSE d[i]]
        \o [k \in 1..Len(newAt) |-> LastOf(pairs[newAt[k]][1])]

\* The transaction ids the collaborator was given, in that order.
DeliveredIds == [i \in 1..Len(delivered) |-> delivered[i][1]]

\* The requests of a collaborator that asks, in a later stage, for every
\* transaction id it was given, once.
FollowUpRequests == {Request(k, DeliveredIds) : k \in {"Conftime", "Tx"}}

\* The update the collaborator is building, as far as it follows the
\* protocol: after its Script requests, the resolution of the ids it was
\* given and then their fetch. It starts over with a request out of order.
EmptyBatch == [stage |-> "scripts", conftimes |-> <<>>, txs |-> <<>>]

\* The update after the Conftime or Tx request r was satisfied with pl.
BatchAfter(b, r, pl) ==
  IF r.kind = "Conftime" /\ r.items = DeliveredIds
  THEN [stage |-> "conftimes",
        conftimes |-> [i \in 1..Len(pl) |-> <<r.items[i], pl[i]>>],
        txs |-> <<>>]
  ELSE IF r.kind = "Tx" /\ b.stage = "conftimes" /\ r.items = DeliveredIds
       THEN [b EXCEPT !.stage = "txs", !.txs = [i \in 1..Len(pl) |-> pl[i][2]]]
       ELSE EmptyBatch

\* The collaborator owns the transition function: it may yield any request.
Yields(r) ==
  r = Finish \/ (nreq < MaxStages /\ r \in StageRequests \cup FollowUpRequests)

\* The requests start or satisfy may return.
Offers == StageRequests \cup FollowUpRequests \cup {Finish}

Outcome(kind, at, val) == [kind |-> kind, at |-> at, val |-> val]
Running == Outcome("none", "", None)

\* ------------------------------------------------- wallet_setup's steps

\* "related_txs.iter().filter(|tx| tx.status.confirmed).count()"
NConfirmed(txs) == Cardinality({i \in 1..Len(txs) : txs[i].confirmed})

\* FirstPageMore counting every record of the page, confirmed or not.
FirstPageMoreAnyRecord(txs) == Len(txs) >= PageSize

\* FirstPageMore never asking for a follow-up page.
FirstPageMoreNever(txs) == FALSE

\* "if n_confirmed >= 25": whether the first page asks for a follow-up.
FirstPageMore(txs) == NConfirmed(txs) >= PageSize

\* NextPageMore going on until a page comes back empty.
NextPageMoreUntilEmpty(new) == new # <<>>

\* "if n < 25 { break; }": whether a follow-up page asks for another.
NextPageMore(new) == ~(Len(new) < PageSize)

\* Cursor taking the first record received instead of the last.
CursorFirst(txs) == Some(Head(txs).txid)

\* "Some(related_txs.last().unwrap().txid)"
Cursor(txs) == Some(Last(txs).txid)

\* Extend keeping only the page just received.
ExtendReplacing(txs, new) == new

\* "related_txs.extend(new_related_txs)"
Extend(txs, new) == txs \o new

\* Satisfaction with the scripts' lists in the reverse of the request order.
SatisfactionReversed(tps) ==
  [i \in 1..Len(tps) |->
     [j \in 1..Len(tps[Len(tps) + 1 - i]) |->
        <<tps[Len(tps) + 1 - i][j].txid, tps[Len(tps) + 1 - i][j].block_height>>]]

\* "txs.iter().map(|tx| (tx.txid, tx.status.block_height)).collect()" for each
\* entry of txs_per_script, in order.
Satisfaction(tps) ==
  [i \in 1..Len(tps) |->
     [j \in 1..Len(tps[i]) |-> <<tps[i][j].txid, tps[i][j].block_height>>]]

\* Inserted keeping the first record of a transaction id.
InsertedFirst(txs, id) ==
  LET at == {i \in 1..Len(txs) : txs[i].txid = id}
  IN  txs[CHOOSE i \in at : \A j \in at : i <= j]

\* "tx_index.insert(tx.txid, tx)" for every record of txs in order: of the
\* records of one id, the one inserted last stays (HashMap::insert replaces).
Inserted(txs, id) ==
  LET at == {i \in 1..Len(txs) : txs[i].txid = id}
  IN  txs[CHOOSE i \in at : \A j \in at : j <= i]

\* IndexAfter with an index that is built anew for every Script request.
IndexAfterFresh(idx, tps) ==
  LET txs == Flatten(tps)
      ids == {txs[i].txid : i \in 1..Len(txs)}
  IN  [id \in ids |-> Inserted(txs, id)]

\* The index after "for txs in txs_per_script { ... for tx in txs { insert } }".
IndexAfter(idx, tps) ==
  LET txs == Flatten(tps)
      ids == {txs[i].txid : i \in 1..Len(txs)}
  IN  [id \in DOMAIN idx \cup ids |->
         IF id \in ids THEN Inserted(txs, id) ELSE idx[id]]

\* Tx::confirmation_time(): the block time, only of a confirmed record.
ConfirmationTime(tx) == IF tx.confirmed THEN tx.block_height ELSE None

\* "tx_index.get(txid).expect("must be in index")" fails for some item.
MissingIndex(idx, items) == \E i \in 1..Len(items) : items[i] \notin DOMAIN idx

\* Conftimes collecting the confirmation times in reverse request order.
ConftimesReversed(idx, items) ==
  [i \in 1..Len(items) |-> ConfirmationTime(idx[items[Len(items) + 1 - i]])]

\* The Conftime arm's "conftimes".
Conftimes(idx, items) ==
  [i \in 1..Len(items) |-> ConfirmationTime(idx[items[i]])]

\* The Tx arm's "full_txs": (tx.previous_outputs(), tx.to_tx()).
FullTxs(idx, items) ==
  [i \in 1..Len(items) |->
     <<[spent_by |-> idx[items[i]].txid], [txid |-> idx[items[i]].txid]>>]

Init ==
  /\ nconf \in [Scripts -> UNION {ConfCounts(s) : s \in Scripts}]
  /\ nmem \in [Scripts -> UNION {MemCounts(s) : s \in Scripts}]
  /\ \A s \in Scripts : nconf[s] \in ConfCounts(s) /\ nmem[s] \in MemCounts(s)
  /\ pc = "idle"
  /\ op = "none"
  /\ request = NoRequest
  /\ tx_index = <<>>
  /\ txs_per_script = <<>>
  /\ related_txs = <<>>
  /\ si = 0
  /\ call = NoCall
  /\ ret = <<>>
  /\ pages = <<>>
  /\ fetchlog = <<>>
  /\ payload = <<>>
  /\ delivered = <<>>
  /\ batch = EmptyBatch
  /\ nreq = 0
  /\ nsat = 0
  /\ fetchErrs = 0
  /\ commits = 0
  /\ finishSeen = FALSE
  /\ result = Running

\* The collaborator hands over request r.
Receive(r) ==
  /\ Yields(r)
  /\ request' = r
  /\ nreq' = IF r = Finish THEN nreq ELSE nreq + 1
  /\ finishSeen' = (finishSeen \/ r = Finish)
  /\ batch' = IF r.kind = "Script" THEN EmptyBatch ELSE batch

\* wallet_setup is invoked: "script_sync::start(database, self.stop_gap)?".
WalletSetup ==
  /\ pc = "idle"
  /\ op' = "wallet_setup"
  /\ \/ /\ \E r \in Offers : Receive(r)
        /\ pc' = "request"
        /\ UNCHANGED result
     \/ /\ pc' = "done"
        /\ result' = Outcome("err", "start", None)
        /\ UNCHANGED <<request, nreq, finishSeen, batch>>
  /\ UNCHANGED <<nconf, nmem, delivered, tx_index, txs_per_script,
                 related_txs, si, call, ret, pages, fetchlog, payload, nsat,
                 fetchErrs, commits>>

\* ScriptArm beginning with the last script of the request.
ScriptArmFromLast ==
  /\ pc = "request"
  /\ request.kind = "Script"
  /\ IF request.items = <<>>
     THEN /\ pc' = "satisfy"
          /\ UNCHANGED <<si, call>>
     ELSE /\ si' = 1
          /\ call' = ScriptCall(request.items[Len(request.items)], None)
          /\ pc' = "call"
  /\ UNCHANGED <<nconf, nmem, delivered, batch, op, request, tx_index,
                 txs_per_script, related_txs, ret, pages, fetchlog, payload,
                 nreq, nsat, fetchErrs, commits, finishSeen, result>>

\* Request::Script arm, up to the first fetch of the first script.
ScriptArm ==
  /\ pc = "request"
  /\ request.kind = "Script"
  /\ IF request.items = <<>>
     THEN /\ pc' = "satisfy"
          /\ UNCHANGED <<si, call>>
     ELSE /\ si' = 1
          /\ call' = ScriptCall(request.items[1], None)
          /\ pc' = "call"
  /\ UNCHANGED <<nconf, nmem, delivered, batch, op, request, tx_index,
                 txs_per_script, related_txs, ret, pages, fetchlog, payload,
                 nreq, nsat, fetchErrs, commits, finishSeen, result>>

\* One pass of retry_script_with_429's loop: "client.scripthash_txs(..)".
ScriptTry ==
  /\ pc = "call"
  /\ call.kind = "script"
  /\ \/ /\ call' = OnOk(call)
        /\ ret' = ScripthashTxs(call.arg, call.page)
     \/ /\ \E e \in Errors : call' = ScriptOnErr(call, e)
        /\ UNCHANGED ret
  /\ pc' = IF call'.state = "running" THEN "call" ELSE "returned"
  /\ fetchErrs' = IF call'.state = "err" THEN fetchErrs + 1 ELSE fetchErrs
  /\ UNCHANGED <<nconf, nmem, delivered, batch, op, request, tx_index,
                 txs_per_script, related_txs, si, pages, fetchlog, payload,
                 nreq, nsat, commits, finishSeen, result>>

\* Propagates swallowing the fetcher's Err.
PropagatesNever(c) == FALSE

\* The "?" after retry_script_with_429(..): the fetcher's Err leaves
\* wallet_setup at once.
Propagates(c) == c.state = "err"

\* The fetcher has returned to the script loop: "?", then the pagination
\* logic up to the next fetch, or up to the end of the script loop.
ScriptReturned ==
  /\ pc = "returned"
  /\ call.kind = "script"
  /\ IF Propagates(call)
     THEN /\ pc' = "done"
          /\ result' = Outcome("err", "fetch", call.err)
          /\ UNCHANGED <<txs_per_script, related_txs, si, call, pages, fetchlog>>
     ELSE LET first == call.page = None
              txs == IF first THEN ret ELSE Extend(related_txs, ret)
              more == IF first THEN FirstPageMore(txs) ELSE NextPageMore(ret)
              log == Append(pages, [script |-> call.arg, cursor |-> call.page,
                                  page |-> ret])
          IN  /\ UNCHANGED result
              /\ IF more
                 THEN /\ related_txs' = txs
                      /\ pages' = log
                      /\ call' = ScriptCall(call.arg, Cursor(txs))
                      /\ pc' = "call"
                      /\ UNCHANGED <<txs_per_script, si, fetchlog>>
                 ELSE /\ txs_per_script' = Append(txs_per_script, txs)
                      /\ fetchlog' = Append(fetchlog, log)
                      /\ related_txs' = <<>>
                      /\ pages' = <<>>
                      /\ IF si < Len(request.items)
                         THEN /\ si' = si + 1
                              /\ call' = ScriptCall(request.items[si + 1], None)
                              /\ pc' = "call"
                         ELSE /\ call' = NoCall
                              /\ pc' = "satisfy"
                              /\ UNCHANGED si
  /\ ret' = <<>>
  /\ UNCHANGED <<nconf, nmem, delivered, batch, op, request, tx_index,
                 payload, nreq, nsat, fetchErrs, commits, finishSeen>>

\* Request::Script arm after the script loop: the satisfaction, the index
\* inserts, and the call "script_req.satisfy(satisfaction)".
ScriptSatisfy ==
  /\ pc = "satisfy"
  /\ tx_index' = IndexAfter(tx_index, txs_per_script)
  /\ payload' = Satisfaction(txs_per_script)
  /\ delivered' = DeliveredAfter(delivered, payload')
  /\ nsat' = nsat + 1
  /\ pc' = "satisfying"
  /\ UNCHANGED <<nconf, nmem, op, request, txs_per_script, related_txs, si,
                 call, ret, pages, fetchlog, batch, nreq, fetchErrs, commits,
                 finishSeen, result>>

\* ConftimeArm leaving out the ids the index does not hold, like a lookup
\* with filter_map in place of expect.
ConftimeArmSkipping ==
  /\ pc = "request"
  /\ request.kind = "Conftime"
  /\ LET Indexed(id) == id \in DOMAIN tx_index
     IN  payload' = Conftimes(tx_index, SelectSeq(request.items, Indexed))
  /\ batch' = EmptyBatch
  /\ nsat' = nsat + 1
  /\ pc' = "satisfying"
  /\ UNCHANGED <<nconf, nmem, delivered, op, request, tx_index,
                 txs_per_script, related_txs, si, call, ret, pages, fetchlog,
                 nreq, fetchErrs, commits, finishSeen, result>>

\* Request::Conftime arm, up to the call "conftime_req.satisfy(conftimes)".
ConftimeArm ==
  /\ pc = "request"
  /\ request.kind = "Conftime"
  /\ IF MissingIndex(tx_index, request.items)
     THEN /\ pc' = "done"
          /\ result' = Outcome("panic", "conftime", None)
          /\ UNCHANGED <<payload, batch, nsat>>
     ELSE /\ payload' = Conftimes(tx_index, request.items)
          /\ batch' = BatchAfter(batch, request, payload')
          /\ nsat' = nsat + 1
          /\ pc' = "satisfying"
          /\ UNCHANGED result
  /\ UNCHANGED <<nconf, nmem, delivered, op, request, tx_index,
                 txs_per_script, related_txs, si, call, ret, pages, fetchlog,
                 nreq, fetchErrs, commits, finishSeen>>

\* TxArm taking the records it looks up out of the index, like a lookup
\* with remove in place of get.
TxArmTaking ==
  /\ pc = "request"
  /\ request.kind = "Tx"
  /\ IF MissingIndex(tx_index, request.items)
     THEN /\ pc' = "done"
          /\ result' = Outcome("panic", "tx", None)
          /\ UNCHANGED <<payload, batch, nsat, tx_index>>
     ELSE /\ payload' = FullTxs(tx_index, request.items)
          /\ batch' = BatchAfter(batch, request, payload')
          /\ tx_index' =
               [id \in DOMAIN tx_index
                         \ {request.items[i] : i \in 1..Len(request.items)} |->
                  tx_index[id]]
          /\ nsat' = nsat + 1
          /\ pc' = "satisfying"
          /\ UNCHANGED result
  /\ UNCHANGED <<nconf, nmem, delivered, op, request, txs_per_script,
                 related_txs, si, call, ret, pages, fetchlog, nreq, fetchErrs,
                 commits, finishSeen>>

\* Request::Tx arm, up to the call "tx_req.satisfy(full_txs)".
TxArm ==
  /\ pc = "request"
  /\ request.kind = "Tx"
  /\ IF MissingIndex(tx_index, request.items)
     THEN /\ pc' = "done"
          /\ result' = Outcome("panic", "tx", None)
          /\ UNCHANGED <<payload, batch, nsat>>
     ELSE /\ payload' = FullTxs(tx_index, request.items)
          /\ batch' = BatchAfter(batch, request, payload')
          /\ nsat' = nsat + 1
          /\ pc' = "satisfying"
          /\ UNCHANGED result
  /\ UNCHANGED <<nconf, nmem, delivered, op, request, tx_index,
                 txs_per_script, related_txs, si, call, ret, pages, fetchlog,
                 nreq, fetchErrs, commits, finishSeen>>

\* The satisfy call returns: "?", and its value becomes the request.
SatisfyReturns ==
  /\ pc = "satisfying"
  /\ \/ /\ \E r \in Offers : Receive(r)
        /\ pc' = "request"
        /\ UNCHANGED result
     \/ /\ pc' = "done"
        /\ result' = Outcome("err", "satisfy", None)
        /\ UNCHANGED <<request, nreq, finishSeen, batch>>
  /\ payload' = <<>>
  /\ txs_per_script' = <<>>
  /\ fetchlog' = <<>>
  /\ UNCHANGED <<nconf, nmem, delivered, op, tx_index, related_txs, si, call,
                 ret, pages, nsat, fetchErrs, commits>>

\* BreaksLoop leaving the loop at the Transaction-fetch request already.
BreaksLoopAtTx(r) == r.kind \in {"Finish", "Tx"}

\* "Request::Finish(batch_update) => break batch_update"
BreaksLoop(r) == r.kind = "Finish"

FinishArm ==
  /\ pc = "request"
  /\ BreaksLoop(request)
  /\ pc' = "commit"
  /\ UNCHANGED <<nconf, nmem, delivered, batch, op, request, tx_index,
                 txs_per_script, related_txs, si, call, ret, pages, fetchlog,
                 payload, nreq, nsat, fetchErrs, commits, finishSeen,
                 result>>

\* Commit trying again when commit_batch fails.
CommitRetrying ==
  /\ pc = "commit"
  /\ commits' = commits + 1
  /\ \/ pc' = "done" /\ result' = Outcome("ok", "", None)
     \/ pc' = "commit" /\ UNCHANGED result
  /\ UNCHANGED <<nconf, nmem, delivered, batch, op, request, tx_index,
                 txs_per_script, related_txs, si, call, ret, pages, fetchlog,
                 payload, nreq, nsat, fetchErrs, finishSeen>>

\* "database.commit_batch(batch_update)?; Ok(())"
Commit ==
  /\ pc = "commit"
  /\ commits' = commits + 1
  /\ pc' = "done"
  /\ \/ result' = Outcome("ok", "", None)
     \/ result' = Outcome("err", "commit", None)
  /\ UNCHANGED <<nconf, nmem, delivered, batch, op, request, tx_index,
                 txs_per_script, related_txs, si, call, ret, pages, fetchlog,
                 payload, nreq, nsat, fetchErrs, finishSeen>>

\* GetTx::get_tx is invoked: "retry_tx_with_429(&self.url_client, txid)".
GetTx ==
  /\ pc = "idle"
  /\ op' = "get_tx"
  /\ \E txid \in {TxidOf(1, 1), UnknownTxid} : call' = TxCall(txid)
  /\ pc' = "call"
  /\ UNCHANGED <<nconf, nmem, delivered, batch, request, tx_index,
                 txs_per_script, related_txs, si, ret, pages, fetchlog,
                 payload, nreq, nsat, fetchErrs, commits, finishSeen,
                 result>>

\* One pass of retry_tx_with_429's loop: "client.get_tx(txid)".
TxTry ==
  /\ pc = "call"
  /\ call.kind = "tx"
  /\ \/ /\ call' = OnOk(call)
        /\ ret' = ServiceGetTx(call.arg)
     \/ /\ \E e \in Errors : call' = TxOnErr(call, e)
        /\ UNCHANGED ret
  /\ pc' = IF call'.state = "running" THEN "call" ELSE "returned"
  /\ fetchErrs' = IF call'.state = "err" THEN fetchErrs + 1 ELSE fetchErrs
  /\ UNCHANGED <<nconf, nmem, delivered, batch, op, request, tx_index,
                 txs_per_script, related_txs, si, pages, fetchlog, payload,
                 nreq, nsat, commits, finishSeen, result>>

\* get_tx returns what retry_tx_with_429 returned.
GetTxReturned ==
  /\ pc = "returned"
  /\ call.kind = "tx"
  /\ pc' = "done"
  /\ result' = IF call.state = "err"
               THEN Outcome("err", "fetch", call.err)
               ELSE Outcome("ok", "", ret)
  /\ UNCHANGED <<nconf, nmem, delivered, batch, op, request, tx_index,
                 txs_per_script, related_txs, si, call, ret, pages, fetchlog,
                 payload, nreq, nsat, fetchErrs, commits, finishSeen>>

Next ==
  \/ WalletSetup
  \/ ScriptArm
  \/ ScriptTry
  \/ ScriptReturned
  \/ ScriptSatisfy
  \/ ConftimeArm
  \/ TxArm
  \/ SatisfyReturns
  \/ FinishArm
  \/ Commit
  \/ GetTx
  \/ TxTry
  \/ GetTxReturned

Spec == Init /\ [][Next]_vars

\* The program keeps running while it has a step to take.
FairSpec == Spec /\ WF_vars(Next)

\* ---------------------------------------------------------- properties

InSync == op = "wallet_setup"

RateLimit == HttpResponse(RateLimitStatus)

\* The waits of k rate-limit responses in a row: 1, 2, 4, ..., 2^(k-1).
Backoff(k) == [i \in 1..k |-> 2 ^ (i - 1)]

\* C1: commit_batch is called exactly once in a sync that returns success,
\* never in a sync that ends with a fetch error, a satisfy error or the
\* missing-index panic, and never before the collaborator yielded Finish.
C1_CommitOnce ==
  InSync =>
    /\ commits <= 1
    /\ result.kind = "ok" => commits = 1
    /\ result.kind = "panic" => commits = 0
    /\ (result.kind = "err" /\ result.at \in {"fetch", "satisfy"}) => commits = 0
    /\ commits > 0 => finishSeen

\* A sync that went through three stages and returned success.
C1_Witness ==
  InSync /\ result.kind = "ok" /\ commits = 1 /\ nsat = MaxStages

\* C2: once a script-page fetch has returned an error, the sync stops: no
\* other fetch is begun and no try is made, the stage is not satisfied,
\* nothing is committed, and the caller gets that error.
C2_FetchErrorAborts ==
  (InSync /\ fetchErrs > 0) =>
    /\ fetchErrs = 1
    /\ call.state = "err"
    /\ pc \in {"returned", "done"}
    /\ ~ENABLED ScriptTry
    /\ nsat = nreq - 1
    /\ payload = <<>>
    /\ commits = 0
    /\ pc = "done" => (result = Outcome("err", "fetch", call.err) /\ ~ENABLED Next)

\* The second script of a request is never fetched: a follow-up page of the
\* first script was rate-limited past the cap.
C2_Witness ==
  /\ InSync /\ pc = "done" /\ result.at = "fetch"
  /\ call.err = Some(RateLimit) /\ call.page # None
  /\ si = 1 /\ Len(request.items) = 2

\* C3: a fetcher returns at once every error that is not the rate-limit
\* signal: it never goes on to another try after a non-429 error.
C3_OtherErrorsReturned == call.spins = 0

C5_BackoffThenSuccess ==
  (call.state = "ok" /\ call.spins = 0 /\ call.attempts <= RetryCap) =>
    /\ call.waits = Backoff(call.attempts)
    /\ Tries(call) = call.attempts + 1
    /\ pc # "call"
    /\ pc = "returned" =>
         ret = IF call.kind = "script"
               THEN ScripthashTxs(call.arg, call.page)
               ELSE ServiceGetTx(call.arg)

\* A script-page fetch answered after 6 rate-limit responses, for which it
\* waited 1, 2, 4, 8, 16 and 32 seconds.
C5_Witness ==
  /\ call.kind = "script" /\ call.state = "ok" /\ call.spins = 0
  /\ call.waits = <<1, 2, 4, 8, 16, 32>>

\* The pages of a fetch log, in fetch order.
PagesOf(log) == [k \in 1..Len(log) |-> log[k].page]

NoDuplicateTxid(txs) ==
  \A i, j \in 1..Len(txs) : txs[i].txid = txs[j].txid => i = j

\* The scripts collected in the current Script-discovery stage.
Collected == 1..Len(fetchlog)

\* C6: a script whose first page holds fewer than 25 confirmed transactions
\* is collected with exactly one page fetch, made without a cursor, and its
\* history is exactly that page; no follow-up fetch is ever begun for it.
C6_OnePageBelowLimit ==
  /\ Len(txs_per_script) = Len(fetchlog)
  /\ \A i \in Collected :
       NConfirmed(fetchlog[i][1].page) < PageSize =>
         /\ Len(fetchlog[i]) = 1
         /\ fetchlog[i][1].cursor = None
         /\ txs_per_script[i] = fetchlog[i][1].page
  /\ pages # <<>> => NConfirmed(pages[1].page) >= PageSize

\* A script collected in one fetch whose page holds 25 records, 24 of them
\* confirmed.
C6_Witness ==
  \E i \in Collected :
    /\ Len(fetchlog[i]) = 1
    /\ Len(fetchlog[i][1].page) = PageSize
    /\ NConfirmed(fetchlog[i][1].page) = PageSize - 1

\* C7: a script whose first page holds exactly 25 confirmed transactions is
\* collected with at least two page fetches, and no transaction id occurs
\* twice in its history (the service pages after the cursor).
C7_SecondPageNoDuplicate ==
  /\ \A i \in Collected :
       NConfirmed(fetchlog[i][1].page) = PageSize =>
         (Len(fetchlog[i]) >= 2 /\ NoDuplicateTxid(txs_per_script[i]))
  /\ (pages # <<>> /\ NConfirmed(pages[1].page) = PageSize) =>
       (pc \in {"call", "returned", "done"} /\ call.page # None
          /\ NoDuplicateTxid(related_txs))

\* A script collected in two fetches, the second of which brought records.
C7_Witness ==
  \E i \in Collected :
    /\ NConfirmed(fetchlog[i][1].page) = PageSize
    /\ Len(fetchlog[i]) = 2
    /\ fetchlog[i][2].page # <<>>
    /\ Len(txs_per_script[i]) > PageSize

\* C8: a script with n confirmed transactions is collected with
\* floor(n/25) + 1 page fetches; when n is a positive multiple of 25, the
\* last of them returns an empty page.
C8_FetchCount ==
  \A i \in Collected :
    LET n == nconf[fetchlog[i][1].script] IN
      /\ Len(fetchlog[i]) = (n \div EsploraPageSize) + 1
      /\ (n > 0 /\ n % EsploraPageSize = 0) => Last(fetchlog[i]).page = <<>>

\* A script with 50 confirmed transactions collected in three fetches.
C8_Witness ==
  \E i \in Collected :
    /\ nconf[fetchlog[i][1].script] = 2 * EsploraPageSize
    /\ Len(fetchlog[i]) = 3

\* C9: a collected script's last page held fewer than 25 confirmed entries,
\* and its history is the concatenation of all its pages, in fetch order.
C9_HistoryIsConcatenation ==
  \A i \in Collected :
    /\ NConfirmed(Last(fetchlog[i]).page) < PageSize
    /\ txs_per_script[i] = Flatten(PagesOf(fetchlog[i]))

\* A script collected in three fetches, two of which brought records.
C9_Witness ==
  \E i \in Collected :
    /\ Len(fetchlog[i]) = 3
    /\ fetchlog[i][2].page # <<>>
    /\ Len(txs_per_script[i]) = 2 * PageSize + 1

\* C10: the payload of a satisfy call has one entry per work item of the
\* request, in request order: for a script, the (txid, block height) pairs
\* of the history collected for that script, in order; for a transaction
\* id, the confirmation time, or the transaction, of that id.
C10_PayloadFollowsRequest ==
  pc = "satisfying" =>
    /\ Len(payload) = Len(request.items)
    /\ request.kind = "Script" =>
         \A i \in 1..Len(request.items) :
           /\ \A k \in 1..Len(fetchlog[i]) :
                fetchlog[i][k].script = request.items[i]
           /\ LET txs == Flatten(PagesOf(fetchlog[i])) IN
                /\ Len(payload[i]) = Len(txs)
                /\ \A j \in 1..Len(txs) :
                     payload[i][j] = <<txs[j].txid, txs[j].block_height>>
    /\ request.kind = "Conftime" =>
         \A i \in 1..Len(request.items) :
           payload[i] = ConfirmationTime(tx_index[request.items[i]])
    /\ request.kind = "Tx" =>
         \A i \in 1..Len(request.items) :
           payload[i][2].txid = request.items[i]

\* A Script-discovery satisfy call for two scripts with different, non-empty
\* histories.
C10_Witness ==
  /\ pc = "satisfying" /\ request.kind = "Script"
  /\ Len(request.items) = 2
  /\ payload[1] # <<>> /\ payload[2] # <<>> /\ payload[1] # payload[2]

\* The requested ids, and the ids the collaborator was given so far.
Requested == {request.items[i] : i \in 1..Len(request.items)}
Given == {delivered[i][1] : i \in 1..Len(delivered)}

\* A lookup stage: a Conftime or Tx request the driver is about to serve.
AtLookup == InSync /\ pc = "request" /\ request.kind \in {"Conftime", "Tx"}

\* C11: when the collaborator requests, in the Conftime and Tx stages, only
\* transaction ids it was given in an earlier Script satisfaction of the
\* sync, every requested id is in the index at its lookup and the "must be
\* in index" lookup does not fail, also after several Script requests:
\* every id given so far is in the index, and a sync that took the panic
\* path was asked for an id the collaborator was never given.
C11_RequestedIdsIndexed ==
  /\ Given \subseteq DOMAIN tx_index
  /\ (AtLookup /\ Requested \subseteq Given) =>
       ~MissingIndex(tx_index, request.items)
  /\ result.kind = "panic" => ~(Requested \subseteq Given)

\* The third stage looks up all the ids of two Script stages, one script
\* each.
C11_Witness ==
  /\ AtLookup /\ nsat = 2
  /\ request.items = DeliveredIds
  /\ {TxidOf(1, 2), TxidOf(2, 2)} \subseteq Given
  /\ delivered[1][1] = TxidOf(2, nconf[2])

\* C12: a Conftime or Tx request for a transaction id that no Script fetch
\* of the sync returned takes the panic path: the next step of the driver
\* is the panic and nothing else, satisfy is not called for that stage, and
\* the sync is over without a call of commit_batch.
C12_UnknownIdPanics ==
  /\ (AtLookup /\ ~(Requested \subseteq Given)) =>
       /\ ENABLED (Next /\ result'.kind = "panic")
       /\ ~ENABLED (Next /\ result'.kind # "panic")
  /\ (InSync /\ pc = "satisfying" /\ request.kind \in {"Conftime", "Tx"}) =>
       Requested \subseteq Given
  /\ result.kind = "panic" =>
       /\ ~(Requested \subseteq Given)
       /\ pc = "done" /\ ~ENABLED Next
       /\ payload = <<>> /\ nsat = nreq - 1
       /\ commits = 0

\* The panic in the third stage, after two satisfied stages, for a request
\* that names an indexed id and one no fetch returned.
C12_Witness ==
  /\ result.kind = "panic" /\ nsat = 2
  /\ request.items = <<TxidOf(1, 1), UnknownTxid>>
  /\ TxidOf(1, 1) \in DOMAIN tx_index

\* The driver serves a request for all the ids the collaborator was given.
ServesAllGiven(kind) ==
  /\ InSync /\ pc = "satisfying"
  /\ request.kind = kind /\ request.items = DeliveredIds

\* id is an unconfirmed transaction of some script's history.
Unconfirmed(id) ==
  \E s \in Scripts : \E k \in 1..nmem[s] : id = MempoolTxid(s, k)

\* C13: for a collaborator that requests scripts and then the resolution
\* and the fetch of the ids it was given, the driver supplies one
\* confirmation-time entry (present only for a confirmed record) and one
\* transaction entry per discovered id, in the requested order, so that
\* the update the collaborator ends with covers every discovered id
\* exactly once.
C13_OneEntryPerDiscoveredId ==
  /\ ServesAllGiven("Conftime") =>
       /\ Len(payload) = Len(delivered)
       /\ \A i \in 1..Len(delivered) :
            /\ payload[i] = delivered[i][2]
            /\ payload[i] = None <=> Unconfirmed(delivered[i][1])
  /\ ServesAllGiven("Tx") =>
       /\ Len(payload) = Len(delivered)
       /\ \A i \in 1..Len(delivered) :
            payload[i] = <<[spent_by |-> delivered[i][1]],
                           [txid |-> delivered[i][1]]>>
  /\ batch.stage = "txs" =>
       /\ Len(batch.conftimes) = Cardinality(DOMAIN tx_index)
       /\ Len(batch.txs) = Cardinality(DOMAIN tx_index)
       /\ {batch.txs[i].txid : i \in 1..Len(batch.txs)} = DOMAIN tx_index
       /\ \A i \in 1..Len(batch.txs) :
            /\ batch.conftimes[i][1] = batch.txs[i].txid
            /\ batch.conftimes[i][2] =
                 ConfirmationTime(tx_index[batch.txs[i].txid])

\* A sync that ended with success after the resolution and the fetch of all
\* the ids of two scripts, an unconfirmed one among them.
C13_Witness ==
  /\ pc = "done" /\ result.kind = "ok"
  /\ batch.stage = "txs"
  /\ {TxidOf(1, 2), TxidOf(2, 2), MempoolTxid(1, 1)} \subseteq Given
  /\ \E i \in 1..Len(batch.conftimes) : batch.conftimes[i][2] = None

\* Script S1 has 30 confirmed transactions, S2 has none, and there is no
\* unconfirmed transaction.
TwoScriptScenario ==
  /\ nconf[1] = 30 /\ nconf[2] = 0
  /\ \A s \in Scripts : nmem[s] = 0

\* C14: in that scenario, a sync for S1 and S2 fetches S1 as a page of 25
\* and a page of 5, ends its Script stage with an index of exactly 30
\* records, resolves a confirmation time for all 30, materializes 30
\* transactions in the Tx stage, and, when it ends with success, has
\* called commit_batch exactly once.
C14_EndToEnd ==
  TwoScriptScenario =>
    /\ (InSync /\ pc = "satisfying" /\ request = Request("Script", <<1, 2>>)) =>
         /\ Len(fetchlog[1]) = 2
         /\ Len(fetchlog[1][1].page) = 25 /\ Len(fetchlog[1][2].page) = 5
         /\ PagesOf(fetchlog[2]) = << <<>> >>
         /\ Len(payload[1]) = 30 /\ payload[2] = <<>>
         /\ Cardinality(DOMAIN tx_index) = 30
    /\ (ServesAllGiven("Conftime") /\ delivered # <<>>) =>
         /\ Len(payload) = 30
         /\ \A i \in 1..Len(payload) : payload[i] # None
    /\ (ServesAllGiven("Tx") /\ delivered # <<>>) =>
         /\ Len(payload) = 30
         /\ Cardinality({payload[i][2].txid : i \in 1..Len(payload)}) = 30
    /\ (pc = "done" /\ result.kind = "ok" /\ batch.stage = "txs"
          /\ delivered # <<>>) =>
         /\ Cardinality(DOMAIN tx_index) = 30
         /\ Len(batch.conftimes) = 30
         /\ \A i \in 1..Len(batch.conftimes) : batch.conftimes[i][2] # None
         /\ Len(batch.txs) = 30
         /\ commits = 1
    /\ commits <= 1

\* The sync of the scenario has ended with success: Script request for S1
\* and S2, resolution, fetch, Finish, commit.
C14_Witness ==
  /\ TwoScriptScenario
  /\ pc = "done" /\ result.kind = "ok" /\ commits = 1
  /\ nsat = 3 /\ batch.stage = "txs" /\ Len(batch.txs) = 30
  /\ Cardinality(DOMAIN tx_index) = 30

\* C15: a failure of commit_batch is returned to the caller after exactly
\* one commit attempt: once commit_batch was called the sync is over, with
\* success or with that error, and takes no further step (no second
\* attempt, no remote call, no index update, no satisfy call); the commit
\* is attempted only when no remote call or satisfy call is in progress.
C15_CommitFailureFinal ==
  /\ commits > 0 =>
       /\ commits = 1
       /\ pc = "done" /\ ~ENABLED Next
       /\ result \in {Outcome("ok", "", None), Outcome("err", "commit", None)}
  /\ result = Outcome("err", "commit", None) => commits = 1
  /\ pc = "commit" =>
       (finishSeen /\ payload = <<>> /\ call.state # "running")

\* A sync that indexed records in three satisfied stages and ended with the
\* error of its commit.
C15_Witness ==
  /\ result = Outcome("err", "commit", None)
  /\ nsat = MaxStages /\ tx_index # <<>>

\* C16: a logical call of the fetcher that has begun ends, with a success
\* or an error, whatever the service answers to its tries; it does not go
\* on trying for ever.
C16_FetcherTerminates == (call.state = "running") ~> (call.state # "running")

\* The cursor that follows the pages in log: none before the first page,
\* then the transaction id of the last record received so far.
CursorAfter(log) ==
  IF log = <<>> THEN None ELSE Some(Last(Flatten(PagesOf(log))).txid)

C18_AttemptsPerCall ==
  call.kind # "none" =>
    /\ call.attempts = Len(call.waits)
    /\ call.waits = Backoff(Len(call.waits))
    /\ (call.state = "running" /\ call.attempts <= RetryCap) =>
         ENABLED (Next /\ call'.waits = Append(call.waits, 2 ^ call.attempts))

\* The follow-up fetch of the second script of a request has just slept its
\* first wait, of one second.
C18_Witness ==
  /\ InSync /\ pc = "call" /\ si = 2
  /\ call.page # None
  /\ call.waits = <<1>>

\* The records of all the page fetches of the Script stage that is being
\* satisfied, in script order, then page order.
StageRecords ==
  Flatten([i \in 1..Len(fetchlog) |-> Flatten(PagesOf(fetchlog[i]))])

\* C19: the keys of the index are exactly the transaction ids the page
\* fetches of the completed Script stages returned (the ids the
\* collaborator was given), never another id; for an id returned more than
\* once the index holds the record inserted last, in script order then
\* page order, and, over several stages, that of the latest stage.
C19_IndexIsLastWrite ==
  /\ DOMAIN tx_index = Given
  /\ \A i \in 1..Len(delivered) :
       /\ tx_index[delivered[i][1]].txid = delivered[i][1]
       /\ tx_index[delivered[i][1]].block_height = delivered[i][2]
  /\ (InSync /\ pc = "satisfying" /\ request.kind = "Script") =>
       LET recs == StageRecords IN
         \A k \in 1..Len(recs) :
           (\A j \in (k + 1)..Len(recs) : recs[j].txid # recs[k].txid) =>
             tx_index[recs[k].txid] = recs[k]

\* Both scripts returned the shared transaction, at different heights, and
\* the index holds the record of the script that was requested last.
C19_Witness ==
  /\ InSync /\ pc = "satisfying"
  /\ request = Request("Script", <<1, 2>>)
  /\ nconf[1] > PageSize /\ nconf[2] > 0
  /\ \E k \in 1..Len(StageRecords) :
       /\ StageRecords[k].txid = TxidOf(1, 1)
       /\ StageRecords[k].block_height = Some(HeightOf(1, 1))
  /\ tx_index[TxidOf(1, 1)].block_height = Some(HeightOf(2, 1))

\* A step of the Conftime or Tx stage: from the moment the request is
\* received to the moment its satisfy call returns.
LaterStageStep == request.kind \in {"Conftime", "Tx"}

\* C20: the Conftime and Tx stages issue no remote call and leave the index
\* as it is; the index changes only in the Script stage, at the inserts
\* that follow the fetches, and there entries are added or overwritten,
\* never removed: an id in the index stays in it until the sync ends.
C20_IndexFrame ==
  [][/\ DOMAIN tx_index \subseteq DOMAIN tx_index'
     /\ tx_index' # tx_index => (request.kind = "Script" /\ pc = "satisfy")
     /\ LaterStageStep =>
          (tx_index' = tx_index /\ call' = call /\ call.state # "running"
             /\ pc' \notin {"call", "returned"})]_vars

\* The Tx stage serves two ids out of an index of more than 25 records in
\* the third stage of a sync.
C20_Witness ==
  /\ InSync /\ pc = "satisfying" /\ request.kind = "Tx"
  /\ Len(request.items) = 2 /\ nsat = 3
  /\ Cardinality(DOMAIN tx_index) > PageSize

====
